---- MODULE Spec2Model ----
(***************************************************************************)
(* Verification model of the gas-shipment ingestion pipeline:              *)
(*   src/src/database.py    Database   (dedup + upsert loader)             *)
(*   src/src/downloader.py  CSVDownloader (cached, retrying fetch)         *)
(*   src/src/parser.py      CSVParser  (row-tolerant CSV parser)           *)
(*   src/src/main.py        main       (orchestrator)                      *)
(*                                                                         *)
(* The specifications share the variables:                                 *)
(*   SpecLoad   a client drives the loader with arbitrary record lists     *)
(*   SpecFetch  a client drives the downloader against an arbitrary server *)
(*   SpecFetchLive  SpecFetch with a retry loop that keeps going           *)
(*   SpecParse  a client hands the parser an arbitrary payload             *)
(*   SpecMain   the orchestrator of main.py drives all of them             *)
(***************************************************************************)
EXTENDS Integers, Sequences, FiniteSets, TLC

(***************************************************************************)
(* Bounds of the model.                                                    *)
(***************************************************************************)
\* longest record list handed to the loader
MaxRecs == 3
\* largest group_size tried by a client of insert_in_small_groups
MaxGroup == 2
\* most data rows of a payload handed to the parser
MaxRows == 4

Min(a, b) == IF a < b THEN a ELSE b

\* Python's None for an optional value: <<>> is None, <<v>> is the value v.
None == <<>>
Some(v) == <<v>>

(***************************************************************************)
(* Records (dicts produced by the parser and stamped by main) and rows.    *)
(***************************************************************************)
\* the natural key, UNIQUE(loc, gas_day, cycle)
KeyCols == {"loc", "gas_day", "cycle"}

\* the columns assigned by the SET clause from EXCLUDED
SetCols ==
  {"loc_zone", "loc_name", "loc_purpose", "measure_basis", "oper_capacity",
   "design_capacity", "scheduled_qty", "operationally_available",
   "total_scheduled"}

\* the keys of a record dict: columns = list(unique_records[0].keys())
Columns == KeyCols \cup SetCols

\* gas days as records carry them: date.isoformat(), YYYY-MM-DD, split at '-'
D1 == <<"2026", "11", "05">>
D2 == <<"2026", "11", "04">>

\* a record whose non-key columns all hold v
Rec(l, d, c, v) ==
  [col \in Columns |->
     CASE col = "loc" -> l
       [] col = "gas_day" -> d
       [] col = "cycle" -> c
       [] OTHER -> v]

\* the records a client may hand to the loader: three keys, two of them
\* sharing loc and gas_day, the first key with two sets of values
RecordPool ==
  {Rec("A", D1, 1, 1), Rec("A", D1, 1, 2), Rec("A", D1, 2, 1), Rec("B", D2, 1, 1)}

SeqsUpTo(S, n) == UNION {[1..k -> S] : k \in 0..n}

\* key = (record['loc'], record['gas_day'], record['cycle'])
KeyOf(r) == <<r["loc"], r["gas_day"], r["cycle"]>>

KeysOf(s) == {KeyOf(s[i]) : i \in DOMAIN s}

(***************************************************************************)
(* Database.remove_duplicates.  The dict unique_records is a sequence of   *)
(* <<key, record>> entries in insertion order: assigning to a key that is  *)
(* present replaces the value in place, a new key goes to the end.         *)
(***************************************************************************)
DictSetFirstWins(d, k, r) ==
  IF \E i \in DOMAIN d : d[i][1] = k THEN d ELSE Append(d, <<k, r>>)

DictSet(d, k, r) ==
  IF \E i \in DOMAIN d : d[i][1] = k
  THEN [i \in DOMAIN d |-> IF d[i][1] = k THEN <<k, r>> ELSE d[i]]
  ELSE Append(d, <<k, r>>)

RECURSIVE DedupLoop(_, _, _)
DedupLoop(records, i, d) ==
  IF i > Len(records) THEN d
  ELSE DedupLoop(records, i + 1, DictSet(d, KeyOf(records[i]), records[i]))

DictValuesReversed(d) == [i \in DOMAIN d |-> d[Len(d) + 1 - i][2]]

DictValues(d) == [i \in DOMAIN d |-> d[i][2]]

remove_duplicatesKeepsAll(records) == records

remove_duplicates(records) ==
  IF records = <<>> THEN <<>>
  ELSE DictValues(DedupLoop(records, 1, <<>>))

(***************************************************************************)
(* The table gas_shipments.  A table is the sequence of its rows in        *)
(* insertion order; a row's id is its position.  created_at is kept        *)
(* relative to the current run: 0 for a row last written by an earlier     *)
(* run, b for a row last written by the b-th transaction of this run.      *)
(***************************************************************************)
NewRow(r, now) == [rec |-> r, created_at |-> now]

RowsOfKey(tbl, k) == {i \in DOMAIN tbl : KeyOf(tbl[i].rec) = k}

\* ON CONFLICT (loc, gas_day, cycle) DO UPDATE SET ... = EXCLUDED...
ConflictUpdateDropsColumn(row, excluded, now) ==
  [rec |-> [col \in Columns |->
              IF col \in SetCols \ {"total_scheduled"}
              THEN excluded[col] ELSE row.rec[col]],
   created_at |-> now]

ConflictUpdate(row, excluded, now) ==
  [rec |-> [col \in Columns |->
              IF col \in SetCols THEN excluded[col] ELSE row.rec[col]],
   created_at |-> now]

\* one VALUES tuple of the INSERT: the row is created, or the row holding
\* the key is updated in place
UpsertOneNoConflictTarget(tbl, r, now) == Append(tbl, NewRow(r, now))

UpsertOne(tbl, r, now) ==
  IF RowsOfKey(tbl, KeyOf(r)) = {}
  THEN Append(tbl, NewRow(r, now))
  ELSE [i \in DOMAIN tbl |->
          IF KeyOf(tbl[i].rec) = KeyOf(r)
          THEN ConflictUpdate(tbl[i], r, now) ELSE tbl[i]]

RECURSIVE UpsertAll(_, _, _, _)
UpsertAll(tbl, values, i, now) ==
  IF i > Len(values) THEN tbl
  ELSE UpsertAll(UpsertOne(tbl, values[i], now), values, i + 1, now)

\* RETURNING id: one id per VALUES tuple, inserted or updated
Returning(tbl, values) ==
  [i \in DOMAIN values |->
     CHOOSE j \in DOMAIN tbl : KeyOf(tbl[j].rec) = KeyOf(values[i])]

\* a statement whose VALUES carry one key twice is refused by the server
\* ("ON CONFLICT DO UPDATE command cannot affect row a second time")
HasDupKeys(values) ==
  \E i, j \in DOMAIN values : i < j /\ KeyOf(values[i]) = KeyOf(values[j])

\* execute_values(cursor, query, values, fetch=True) inside the open
\* transaction: the connection's view after it, the fetched ids, and
\* whether the statement raised.  The lists of the model are shorter than
\* execute_values' page, so the list is one statement.
execute_values(view, values, now) ==
  IF HasDupKeys(values)
  THEN [view |-> view, result |-> <<>>, error |-> TRUE]
  ELSE LET after == UpsertAll(view, values, 1, now)
       IN [view |-> after, result |-> Returning(after, values),
           error |-> FALSE]

\* conn.commit(): the connection's view becomes the committed table
Commit(committed, view) == view

\* conn.rollback(): the connection's view falls back to the committed table
RollbackKeepsWork(committed, view) == view

Rollback(committed, view) == committed

(***************************************************************************)
(* Config (config.py) and the downloader's pure parts.                     *)
(***************************************************************************)
REQUEST_TIMEOUT == 30
MAX_RETRIES == 3
RETRY_DELAY == 5

\* A response text is kept by what the code asks of it: whether it is the
\* empty string, whether it contains 'No data found', and its data rows
\* (the lines after the header line) as csv.DictReader yields them.
EmptyText == [blank |-> TRUE, marker |-> FALSE, rows |-> <<>>]
Csv(rows) == [blank |-> FALSE, marker |-> FALSE, rows |-> rows]
NoDataPage == [blank |-> FALSE, marker |-> TRUE, rows |-> <<>>]
ErrorPage == [blank |-> FALSE, marker |-> FALSE, rows |-> <<>>]

\* the value csv.DictReader gives a column the line has no field for (None)
NoCell == "<None>"

\* a row of the reader: the cell under 'Loc', the cell under each of the
\* four text columns and the cell under each of the five numeric columns
Row(loc, text, num) == [Loc |-> loc, Text |-> text, Num |-> num]

\* a row with one cell under every column but 'Loc'
RawRow(loc, cell) == Row(loc, cell, cell)

Payload1 == Csv(<<RawRow("A", "1"), RawRow("B", "1")>>)
Payload2 == Csv(<<RawRow(" A ", "1,234"), RawRow("", "2")>>)

\* the bodies a CSV-typed response may carry
Contents == {EmptyText, Payload1, Payload2}

\* gas days as main formats them, '%m/%d/%Y', split at '/'
GasDays == {<<"11", "05", "2026">>, <<"11", "04", "2026">>}

\* the (gas_day, cycle) pairs a client asks for
FetchKeys ==
  {<<<<"11", "05", "2026">>, 1>>, <<<<"11", "05", "2026">>, 2>>,
   <<<<"11", "04", "2026">>, 1>>}

\* CSVDownloader.get_temp_file_path: the file name carries the date as
\* YYYY-MM-DD (MM/DD/YYYY reordered) or, for any other shape, the gas day
\* with '/' turned into '-', and the cycle.  A path is <<date parts, cycle>>.
get_temp_file_pathDropsCycle(gas_day, cycle) ==
  LET parts == gas_day
      formatted_date == IF Len(parts) = 3
                        THEN <<parts[3], parts[1], parts[2]>>
                        ELSE parts
  IN <<formatted_date, 1>>

get_temp_file_path(gas_day, cycle) ==
  LET parts == gas_day
      formatted_date == IF Len(parts) = 3
                        THEN <<parts[3], parts[1], parts[2]>>
                        ELSE parts
  IN <<formatted_date, cycle>>


\* what session.get gives: an exception of requests, or a response
Response(status, content_type, text) ==
  [exc |-> "none", status |-> status, content_type |-> content_type,
   text |-> text]

Raises(exc) ==
  [exc |-> exc, status |-> 0, content_type |-> "", text |-> EmptyText]

\* the outcomes of one request the server and the network can produce
Responses ==
  {Raises("Timeout"), Raises("ConnectionError"),
   Response(500, "text/html", ErrorPage),
   Response(404, "text/html", NoDataPage),
   Response(200, "text/csv", Payload1),
   Response(200, "application/csv", Payload2),
   Response(200, "text/csv; charset=utf-8", EmptyText),
   Response(200, "text/html", NoDataPage),
   Response(200, "text/html", ErrorPage),
   Response(200, "application/json", ErrorPage)}

\* the outcomes the server produces in the runs of main: a transport
\* failure, a bad status, the reports and the no-data page
MainResponses ==
  {Raises("Timeout"),
   Response(500, "text/html", ErrorPage),
   Response(200, "text/csv", Payload1),
   Response(200, "application/csv", Payload2),
   Response(200, "text/html", NoDataPage)}

\* except requests.RequestException
IsRequestException(exc) == exc \in {"Timeout", "ConnectionError"}

\* 'text/csv' in content_type or 'application/csv' in content_type
IsCsvType(content_type) ==
  content_type \in {"text/csv", "application/csv", "text/csv; charset=utf-8"}

\* 'text/html' in content_type
IsHtmlType(content_type) == content_type \in {"text/html"}

\* what one pass of the retry loop makes of a response:
\*   "csv"     save and return the text
\*   "none"    return (None, None)
\*   "retry"   log, then sleep or give up
\*   "raise"   the exception leaves download_csv
ClassifyRetriesUnexpected(r) ==
  IF r.exc # "none"
  THEN (IF IsRequestException(r.exc) THEN "retry" ELSE "raise")
  ELSE IF r.status = 200
       THEN (IF IsCsvType(r.content_type) THEN "csv"
             ELSE IF IsHtmlType(r.content_type) /\ r.text.marker THEN "none"
             ELSE "retry")
       ELSE "retry"

Classify(r) ==
  IF r.exc # "none"
  THEN (IF IsRequestException(r.exc) THEN "retry" ELSE "raise")
  ELSE IF r.status = 200
       THEN (IF IsCsvType(r.content_type) THEN "csv"
             ELSE IF IsHtmlType(r.content_type) /\ r.text.marker THEN "none"
             ELSE "none")
       ELSE "retry"

\* os.path.exists(temp_file_path)
ExistsNever(files, path) == FALSE

Exists(files, path) == files[path] # None

\* with open(temp_file_path, 'w') as file: file.write(response.text)
SaveCsvSkips(files, path, text) == files

SaveCsvTruncates(files, path, text) == [files EXCEPT ![path] = Some(EmptyText)]

SaveCsv(files, path, text) == [files EXCEPT ![path] = Some(text)]

Get(timeout) == [ev |-> "get", arg |-> timeout]
Sleep(delay) == [ev |-> "sleep", arg |-> delay]

\* if attempt < MAX_RETRIES: time.sleep(RETRY_DELAY)
SleepsBeforeNextNever(attempt) == FALSE

SleepsBeforeNext(attempt) == attempt < MAX_RETRIES

\* for attempt in range(1, MAX_RETRIES + 1)
LastAttemptOneMore(attempt) == attempt = MAX_RETRIES + 1

LastAttempt(attempt) == attempt = MAX_RETRIES

(***************************************************************************)
(* CSVParser (parser.py): a row of the reader becomes a record, or is      *)
(* skipped.  Strings are the cells of the modelled payloads.               *)
(***************************************************************************)
\* str.strip()
Strip(cell) ==
  CASE cell = " A " -> "A"
    [] cell = " B " -> "B"
    [] cell = " y " -> "y"
    [] cell = "  " -> ""
    [] OTHER -> cell

\* value.replace(',', '')
RemoveCommas(cell) ==
  CASE cell = "1,234" -> "1234"
    [] OTHER -> cell

\* float(cleaned_value): the number, or None where float raises ValueError
Float(cell) ==
  CASE cell = "1" -> Some(1)
    [] cell = "2" -> Some(2)
    [] cell = "1234" -> Some(1234)
    [] OTHER -> None

\* CSVParser._parse_numeric
parse_numericZeroWhenEmpty(value) ==
  IF value = NoCell \/ value = "" \/ Strip(value) = "" THEN Some(0)
  ELSE Float(Strip(RemoveCommas(value)))

parse_numeric(value) ==
  IF value = NoCell \/ value = "" \/ Strip(value) = "" THEN None
  ELSE Float(Strip(RemoveCommas(value)))

TextCols == {"loc_zone", "loc_name", "loc_purpose", "measure_basis"}

\* the keys of a record as the parser leaves it, before main stamps it
ParsedCols == {"loc"} \cup SetCols

\* the try block of _clean_record: the record, None for a row without
\* 'Loc', or the exception of .strip() on a column the line has no field for
TryClean(row) ==
  IF row.Loc = NoCell \/ row.Loc = ""
  THEN [threw |-> FALSE, record |-> None]
  ELSE IF row.Text = NoCell
  THEN [threw |-> TRUE, record |-> None]
  ELSE [threw |-> FALSE,
        record |-> Some([col \in ParsedCols |->
                           IF col = "loc" THEN Strip(row.Loc)
                           ELSE IF col \in TextCols THEN Some(Strip(row.Text))
                           ELSE parse_numeric(row.Num)])]

\* CSVParser._clean_record: the record, or None for a row without 'Loc' and
\* for a row whose cleaning threw (except Exception: return None)
clean_record(row) ==
  LET body == TryClean(row)
  IN IF body.threw THEN None ELSE body.record

\* parse_csv under way: the records appended, the row numbers (from 1)
\* logged as skipped, and whether an exception left the loop
NoRecords == [records |-> <<>>, skipped |-> <<>>, raised |-> FALSE]

\* the body of the loop for row i: append the record or log the skip
OnRowStopsAtInvalid(st, i, record) ==
  IF record # None THEN [st EXCEPT !.records = Append(@, record[1])]
  ELSE [st EXCEPT !.skipped = Append(@, i), !.raised = TRUE]

OnRowPrepends(st, i, record) ==
  IF record # None THEN [st EXCEPT !.records = <<record[1]>> \o @]
  ELSE [st EXCEPT !.skipped = Append(@, i)]

OnRow(st, i, record) ==
  IF record # None THEN [st EXCEPT !.records = Append(@, record[1])]
  ELSE [st EXCEPT !.skipped = Append(@, i)]

RECURSIVE ParseLoop(_, _, _)
ParseLoop(rows, i, st) ==
  IF i > Len(rows) \/ st.raised THEN st
  ELSE ParseLoop(rows, i + 1, OnRow(st, i, clean_record(rows[i])))

\* CSVParser.parse_csv with what it logs
ParseRun(csv_data) == ParseLoop(csv_data.rows, 1, NoRecords)

\* CSVParser.parse_csv
parse_csv(csv_data) == ParseRun(csv_data).records

\* the rows the reader may yield for a payload handed to the parser
RowPool ==
  {Row("A", "x", "1"), Row(" B ", " y ", "1,234"), Row("C", "x", "abc"),
   Row("D", "", ""), Row("F", "x", NoCell), Row("", "x", "2"),
   Row(NoCell, "x", "1"), Row("  ", "x", "1"), Row("E", NoCell, NoCell)}

(***************************************************************************)
(* main (main.py): the dates, the cycles and the stamping of records.      *)
(***************************************************************************)
\* days=3 in get_last_few_days(days=3), scaled for the model
NumDays == 1
\* range(1, 6): cycles 1..5, scaled for the model
NumCycles == 2
\* group_size=100 in db.insert_in_small_groups(all_records, group_size=100)
GROUP_SIZE == 100

\* get_last_few_days: today - 1, today - 2, ..., as <<year, month, day>>
LastDays == <<D1, D2, <<"2026", "11", "03">>, <<"2026", "11", "02">>>>

get_last_few_days(days) == SubSeq(LastDays, 1, Min(days, Len(LastDays)))

\* date.strftime("%m/%d/%Y"), split at '/'
format_date_for_url(date) == <<date[2], date[3], date[1]>>

\* date.isoformat(), split at '-'
isoformat(date) == date

\* the (date, cycle) pairs in the order main's two loops visit them
PairList ==
  LET dates == get_last_few_days(NumDays)
  IN [n \in 1..(Len(dates) * NumCycles) |->
        [date |-> dates[((n - 1) \div NumCycles) + 1],
         cycle |-> ((n - 1) % NumCycles) + 1]]

StampCycleOne(record, date, cycle) ==
  [col \in Columns |->
     CASE col = "gas_day" -> isoformat(date)
       [] col = "cycle" -> 1
       [] OTHER -> record[col]]

\* record['gas_day'] = date.isoformat(); record['cycle'] = cycle
Stamp(record, date, cycle) ==
  [col \in Columns |->
     CASE col = "gas_day" -> isoformat(date)
       [] col = "cycle" -> cycle
       [] OTHER -> record[col]]

StampAll(records, date, cycle) ==
  [i \in DOMAIN records |-> Stamp(records[i], date, cycle)]

\* if not csv_data
IsFalsyText(content) == content = None \/ content[1].blank

\* where main stands after the loop body of pair idx, which `continue`
\* leaves early when there is no data: at the next pair, or past the loops
NextPcEndsOnNoData(csv_data, idx) ==
  IF IsFalsyText(csv_data) \/ idx = Len(PairList) THEN "summary" ELSE "loop"

NextPc(csv_data, idx) == IF idx = Len(PairList) THEN "summary" ELSE "loop"

\* the files TEMP_FOLDER may hold: those of the pairs a client or main asks for
FetchPaths == {get_temp_file_path(k[1], k[2]) : k \in FetchKeys}

Paths ==
  FetchPaths \cup
  {get_temp_file_path(format_date_for_url(PairList[n].date), PairList[n].cycle) :
     n \in DOMAIN PairList}

(***************************************************************************)
(* State.                                                                  *)
(***************************************************************************)
VARIABLES
  table,    \* gas_shipments as committed in the store
  conn,     \* gas_shipments as the open connection sees it
  dbPhase,  \* "ready": connected and initialised; "done": the loader returned
  call,     \* the loader call of this run: its arguments and the table before
  out,      \* what that call gave back to its caller
  cache,    \* the files of TEMP_FOLDER: path -> None or the file's content
  keep_temp_files,  \* Config.KEEP_TEMP_FILES, fixed for a run
  dlPhase,  \* "idle", or "attempting" inside download_csv's retry loop
  cur,      \* the download_csv call under way, or the last one finished
  prev,     \* the download_csv call finished before cur, if no cleanup
            \* ran since
  mainPc,   \* where main stands: "loop", "fetching", "summary", "done",
            \* "failed"
  pairIdx,  \* the (date, cycle) pair of PairList the loops are at
  all_records,     \* main's list of stamped records
  inserted_count,  \* main's inserted_count, None while unassigned
  evicted,  \* the cache files main's cleanup calls have deleted
  fetched,  \* what download_csv was asked and gave for each pair visited
  origin,   \* for each record of all_records, the pair it was parsed for
  parsed    \* the parse_csv call of a client: its payload's rows and outcome

loadVars == <<table, conn, dbPhase, call, out>>

fetchVars == <<cache, keep_temp_files, dlPhase, cur, prev>>

mainVars ==
  <<mainPc, pairIdx, all_records, inserted_count, evicted, fetched, origin>>

parseVars == <<parsed>>

vars == <<table, conn, dbPhase, call, out,
          cache, keep_temp_files, dlPhase, cur, prev,
          mainPc, pairIdx, all_records, inserted_count, evicted, fetched,
          origin, parsed>>

\* no failure, or the failure of the storage during one batch: the batch
\* (1-based) whose write fails and where it fails, in execute_values (the
\* statement is atomic, none of its rows is applied) or in conn.commit()
\* (all its rows are applied in the open transaction)
NoFailure == [batch |-> 0, at |-> "none"]

\* the VALUES tuples of a batch that are applied when the plan's failure hits
Applied(plan, values) == IF plan.at = "commit" THEN values ELSE <<>>

NoCall ==
  [op |-> "none", records |-> <<>>, group_size |-> 0, plan |-> NoFailure,
   before |-> <<>>]

\* ret: the returned count or None; raised: an exception left the handler;
\* attempted: transactions opened; logged: the running totals logged;
\* statements: the VALUES lists handed to execute_values, in order
NoOut ==
  [ret |-> None, raised |-> FALSE, attempted |-> 0, logged |-> <<>>,
   statements |-> <<>>]

\* except Exception: self.conn.rollback(); logger.error(...); raise
ExceptHandlerReturnsTotal(st, view) ==
  [st EXCEPT !.conn = Rollback(st.table, view),
             !.ret = Some(IF st.logged = <<>> THEN 0
                          ELSE st.logged[Len(st.logged)])]

ExceptHandler(st, view) ==
  [st EXCEPT !.conn = Rollback(st.table, view), !.raised = TRUE]

\* if not records: logger.warning("No records to insert"); return 0
NoRecordsToInsertReturnsNothing(st) == st

NoRecordsToInsert(st) == [st EXCEPT !.ret = Some(0)]

(***************************************************************************)
(* Database.insert_records: one transaction for the whole list.            *)
(***************************************************************************)
\* st = [table, conn, ret, raised, attempted, logged, statements]
insert_records(committed, view, records, plan) ==
  LET st0 == [table |-> committed, conn |-> view, ret |-> None,
              raised |-> FALSE, attempted |-> 0, logged |-> <<>>,
              statements |-> <<>>]
      unique_records == remove_duplicates(records)
  IN IF records = <<>> THEN NoRecordsToInsert(st0)
     ELSE IF unique_records = <<>> THEN NoRecordsToInsert(st0)
     ELSE LET failing == plan.batch = 1
              sent == IF failing THEN Applied(plan, unique_records)
                      ELSE unique_records
              done == execute_values(view, sent, 1)
          IN IF failing \/ done.error
             THEN ExceptHandler([st0 EXCEPT !.attempted = 1,
                                            !.statements = <<unique_records>>],
                                done.view)
             ELSE [st0 EXCEPT !.attempted = 1,
                              !.statements = <<unique_records>>,
                              !.table = Commit(committed, done.view),
                              !.conn = done.view,
                              !.ret = Some(Len(done.result)),
                              !.logged = <<Len(done.result)>>]

(***************************************************************************)
(* Database.insert_in_small_groups: one transaction per group.             *)
(***************************************************************************)
\* group = unique_records[i:i+group_size], i counted from 0
Group(unique_records, i, group_size) ==
  SubSeq(unique_records, i + 1, Min(i + group_size, Len(unique_records)))

\* i += group_size
NextGroupStartSkipsOne(i, group_size) == i + group_size + 1

NextGroupStart(i, group_size) == i + group_size

\* total_inserted += group_inserted
AddCountOverwrites(total_inserted, group_inserted) == group_inserted

AddCount(total_inserted, group_inserted) == total_inserted + group_inserted

Last(s) == s[Len(s)]

RunningTotal(st) == IF st.logged = <<>> THEN 0 ELSE Last(st.logged)

RECURSIVE GroupLoop(_, _, _, _, _)
GroupLoop(st, unique_records, group_size, i, plan) ==
  IF ~(i < Len(unique_records)) THEN [st EXCEPT !.ret = Some(RunningTotal(st))]
  ELSE
    LET group == Group(unique_records, i, group_size)
        b == st.attempted + 1
        failing == plan.batch = b
        sent == IF failing THEN Applied(plan, group) ELSE group
        done == execute_values(st.conn, sent, b)
    IN IF failing \/ done.error
       THEN ExceptHandler([st EXCEPT !.attempted = b,
                                     !.statements = Append(@, group)],
                          done.view)
       ELSE GroupLoop(
              [st EXCEPT !.attempted = b,
                         !.statements = Append(@, group),
                         !.table = Commit(st.table, done.view),
                         !.conn = done.view,
                         !.logged = Append(@, AddCount(RunningTotal(st),
                                                       Len(done.result)))],
              unique_records, group_size,
              NextGroupStart(i, group_size), plan)

insert_in_small_groups(committed, view, records, group_size, plan) ==
  LET st0 == [table |-> committed, conn |-> view, ret |-> None,
              raised |-> FALSE, attempted |-> 0, logged |-> <<>>,
              statements |-> <<>>]
      unique_records == remove_duplicates(records)
  IN IF records = <<>> THEN NoRecordsToInsert(st0)
     ELSE IF unique_records = <<>> THEN NoRecordsToInsert(st0)
     ELSE GroupLoop(st0, unique_records, group_size, 0, plan)

\* the number of groups the loop cuts n unique records into
NumGroups(n, group_size) == (n + group_size - 1) \div group_size

\* the failures the storage can produce during a call that sends the
\* unique records in groups of group_size
Plans(unique_records, group_size) ==
  {NoFailure} \cup
  [batch : 1..NumGroups(Len(unique_records), group_size),
   at : {"execute", "commit"}]

\* what the caller keeps of a finished handler
OutOf(st) ==
  [ret |-> st.ret, raised |-> st.raised, attempted |-> st.attempted,
   logged |-> st.logged, statements |-> st.statements]

(***************************************************************************)
(* Actions of the loader.                                                  *)
(***************************************************************************)
\* no download_csv call yet
\* files: TEMP_FOLDER as the call found it; events: the requests and
\* sleeps of the call in order; answers: what its requests got
NoCur ==
  [gas_day |-> <<>>, cycle |-> 0, files |-> [p \in Paths |-> None],
   attempt |-> 0, events |-> <<>>, answers |-> <<>>,
   content |-> None, key |-> None, returned |-> FALSE, raised |-> FALSE]

NoPrev ==
  [valid |-> FALSE, gas_day |-> <<>>, cycle |-> 0, content |-> None,
   key |-> None, requests |-> 0]

\* no parse_csv call yet
NoParse ==
  [called |-> FALSE, rows |-> <<>>, records |-> <<>>, skipped |-> <<>>,
   raised |-> FALSE]

Init ==
  /\ table = <<>>
  /\ conn = <<>>
  /\ dbPhase = "ready"
  /\ call = NoCall
  /\ out = NoOut
  /\ cache = [p \in Paths |-> None]
  /\ keep_temp_files \in BOOLEAN
  /\ dlPhase = "idle"
  /\ cur = NoCur
  /\ prev = NoPrev
  /\ mainPc = "loop"
  /\ pairIdx = 1
  /\ all_records = <<>>
  /\ inserted_count = None
  /\ evicted = {}
  /\ fetched = <<>>
  /\ origin = <<>>
  /\ parsed = NoParse

InsertRecords ==
  /\ dbPhase = "ready"
  /\ \E records \in SeqsUpTo(RecordPool, MaxRecs) :
       \E plan \in Plans(remove_duplicates(records), Len(records) + 1) :
         LET st == insert_records(table, conn, records, plan)
         IN /\ table' = st.table
            /\ conn' = st.conn
            /\ call' = [op |-> "insert_records", records |-> records,
                        group_size |-> 0, plan |-> plan, before |-> table]
            /\ out' = OutOf(st)
  /\ dbPhase' = "done"
  /\ UNCHANGED fetchVars
  /\ UNCHANGED mainVars
  /\ UNCHANGED parseVars

InsertInSmallGroups ==
  /\ dbPhase = "ready"
  /\ \E records \in SeqsUpTo(RecordPool, MaxRecs), group_size \in 1..MaxGroup :
       \E plan \in Plans(remove_duplicates(records), group_size) :
         LET st == insert_in_small_groups(table, conn, records, group_size, plan)
         IN /\ table' = st.table
            /\ conn' = st.conn
            /\ call' = [op |-> "insert_in_small_groups", records |-> records,
                        group_size |-> group_size, plan |-> plan,
                        before |-> table]
            /\ out' = OutOf(st)
  /\ dbPhase' = "done"
  /\ UNCHANGED fetchVars
  /\ UNCHANGED mainVars
  /\ UNCHANGED parseVars

\* time passes between runs: every stamp now lies before the new run
Age(tbl) == [i \in DOMAIN tbl |-> [tbl[i] EXCEPT !.created_at = 0]]

\* the process ends (db.close() drops uncommitted work) and the pipeline is
\* run again: Database() connects, initialize_database keeps the table
\* (CREATE TABLE IF NOT EXISTS)
initialize_database ==
  /\ dbPhase = "done"
  /\ table' = Age(table)
  /\ conn' = Age(table)
  /\ dbPhase' = "ready"
  /\ call' = NoCall
  /\ out' = NoOut
  /\ UNCHANGED fetchVars
  /\ UNCHANGED mainVars
  /\ UNCHANGED parseVars

NextLoad == InsertRecords \/ InsertInSmallGroups \/ initialize_database

SpecLoad == Init /\ [][NextLoad]_vars

(***************************************************************************)
(* Actions of the downloader.                                              *)
(***************************************************************************)
\* the number of session.get calls in a trace of events
Requests(events) == Cardinality({i \in DOMAIN events : events[i].ev = "get"})

\* the finished call cur, as the next call remembers it
Remembered ==
  IF cur.returned \/ cur.raised
  THEN [valid |-> TRUE, gas_day |-> cur.gas_day, cycle |-> cur.cycle,
        content |-> cur.content, key |-> cur.key,
        requests |-> Requests(cur.events)]
  ELSE NoPrev

\* download_csv up to the retry loop: the cache is looked up first
StartDownload(gas_day, cycle) ==
  LET temp_file_path == get_temp_file_path(gas_day, cycle)
      c0 == [NoCur EXCEPT !.gas_day = gas_day, !.cycle = cycle,
                          !.files = cache]
  IN /\ dlPhase = "idle"
     /\ prev' = Remembered
     /\ IF Exists(cache, temp_file_path)
        THEN /\ cur' = [c0 EXCEPT !.content = cache[temp_file_path],
                                  !.key = Some(temp_file_path),
                                  !.returned = TRUE]
             /\ dlPhase' = "idle"
        ELSE /\ cur' = [c0 EXCEPT !.attempt = 1]
             /\ dlPhase' = "attempting"
     /\ UNCHANGED <<cache, keep_temp_files>>

\* one pass of the retry loop, the server answering r
AttemptWith(r) ==
  LET temp_file_path == get_temp_file_path(cur.gas_day, cur.cycle)
      sent == [cur EXCEPT !.events = Append(@, Get(REQUEST_TIMEOUT)),
                          !.answers = Append(@, r)]
      outcome == Classify(r)
  IN /\ dlPhase = "attempting"
     /\ CASE outcome = "csv" ->
             /\ cache' = SaveCsv(cache, temp_file_path, r.text)
             /\ cur' = [sent EXCEPT !.content = Some(r.text),
                                    !.key = Some(temp_file_path),
                                    !.returned = TRUE]
             /\ dlPhase' = "idle"
          [] outcome = "none" ->
             /\ cur' = [sent EXCEPT !.returned = TRUE]
             /\ dlPhase' = "idle"
             /\ UNCHANGED cache
          [] outcome = "raise" ->
             /\ cur' = [sent EXCEPT !.raised = TRUE]
             /\ dlPhase' = "idle"
             /\ UNCHANGED cache
          [] outcome = "retry" ->
             LET slept == IF SleepsBeforeNext(cur.attempt)
                          THEN [sent EXCEPT
                                  !.events = Append(@, Sleep(RETRY_DELAY))]
                          ELSE sent
             IN /\ IF LastAttempt(cur.attempt)
                   THEN /\ cur' = [slept EXCEPT !.returned = TRUE]
                        /\ dlPhase' = "idle"
                   ELSE /\ cur' = [slept EXCEPT !.attempt = @ + 1]
                        /\ dlPhase' = "attempting"
                /\ UNCHANGED cache
     /\ UNCHANGED <<keep_temp_files, prev>>

\* CSVDownloader.cleanup(file_path): one file, or with None every file of
\* TEMP_FOLDER; os.remove may fail, which is logged and leaves files
\* behind.  The sets of files a call may end up deleting:
Removals(file_path) ==
  LET existing == {p \in Paths : Exists(cache, p)}
      targets == IF keep_temp_files THEN {}
                 ELSE IF file_path # None
                 THEN (IF Exists(cache, file_path[1]) THEN {file_path[1]}
                       ELSE {})
                 ELSE existing
  IN {removed \in SUBSET targets :
        (file_path = None /\ removed # targets) => removed # {}}

Without(files, removed) ==
  [p \in Paths |-> IF p \in removed THEN None ELSE files[p]]

DownloadCsv ==
  /\ \E k \in FetchKeys : StartDownload(k[1], k[2])
  /\ UNCHANGED loadVars
  /\ UNCHANGED mainVars
  /\ UNCHANGED parseVars

Attempt ==
  /\ \E r \in Responses : AttemptWith(r)
  /\ UNCHANGED loadVars
  /\ UNCHANGED mainVars
  /\ UNCHANGED parseVars

Cleanup ==
  /\ dlPhase = "idle"
  /\ \E file_path \in {None} \cup {Some(p) : p \in FetchPaths} :
       \E removed \in Removals(file_path) : cache' = Without(cache, removed)
  /\ cur' = NoCur
  /\ prev' = NoPrev
  /\ UNCHANGED <<keep_temp_files, dlPhase>>
  /\ UNCHANGED loadVars
  /\ UNCHANGED mainVars
  /\ UNCHANGED parseVars

NextFetch == DownloadCsv \/ Attempt \/ Cleanup

SpecFetch == Init /\ [][NextFetch]_vars

\* a call under way goes on: session.get returns or raises within its
\* timeout, and time.sleep ends
SpecFetchLive == SpecFetch /\ WF_vars(Attempt)

(***************************************************************************)
(* Actions of the parser: a client hands parse_csv a payload.              *)
(***************************************************************************)
ParseCsv ==
  /\ ~parsed.called
  /\ \E rows \in SeqsUpTo(RowPool, MaxRows) :
       LET st == ParseRun(Csv(rows))
       IN parsed' = [called |-> TRUE, rows |-> rows, records |-> st.records,
                     skipped |-> st.skipped, raised |-> st.raised]
  /\ UNCHANGED loadVars
  /\ UNCHANGED fetchVars
  /\ UNCHANGED mainVars

NextParse == ParseCsv

SpecParse == Init /\ [][NextParse]_vars

(***************************************************************************)
(* Actions of main: the two loops over dates and cycles, then the insert.  *)
(***************************************************************************)
CurrentPair == PairList[pairIdx]

\* csv_data, temp_file_path = downloader.download_csv(formatted_date, cycle)
MainFetch ==
  /\ mainPc = "loop"
  /\ pairIdx <= Len(PairList)
  /\ StartDownload(format_date_for_url(CurrentPair.date), CurrentPair.cycle)
  /\ mainPc' = "fetching"
  /\ UNCHANGED <<pairIdx, all_records, inserted_count, evicted, fetched,
                 origin>>
  /\ UNCHANGED loadVars
  /\ UNCHANGED parseVars

\* the rest of the loop body once download_csv is over: parse, stamp,
\* extend all_records, delete the pair's file
MainConsume ==
  /\ mainPc = "fetching"
  /\ dlPhase = "idle"
  /\ LET csv_data == cur.content
         temp_file_path == cur.key
         records == IF IsFalsyText(csv_data) THEN <<>>
                    ELSE parse_csv(csv_data[1])
     IN /\ fetched' = Append(fetched, [gas_day |-> cur.gas_day,
                                        cycle |-> cur.cycle,
                                        content |-> csv_data])
        /\ mainPc' = NextPc(csv_data, pairIdx)
        /\ IF cur.raised \/ IsFalsyText(csv_data) \/ records = <<>>
           THEN UNCHANGED <<all_records, origin, cache, evicted>>
           ELSE
             /\ all_records' =
                  all_records \o
                  StampAll(records, CurrentPair.date, CurrentPair.cycle)
             /\ origin' = origin \o [i \in DOMAIN records |-> pairIdx]
             /\ IF temp_file_path # None /\ ~keep_temp_files
                THEN \E removed \in Removals(temp_file_path) :
                       /\ cache' = Without(cache, removed)
                       /\ evicted' = evicted \cup removed
                ELSE UNCHANGED <<cache, evicted>>
  /\ pairIdx' = pairIdx + 1
  /\ cur' = NoCur
  /\ prev' = NoPrev
  /\ UNCHANGED <<keep_temp_files, dlPhase, inserted_count>>
  /\ UNCHANGED loadVars
  /\ UNCHANGED parseVars

\* after the loops: the summary, the user's answer, the batched insert and
\* the clean-up of TEMP_FOLDER; an exception of the insert ends main
MainFinish ==
  /\ mainPc = "summary"
  /\ \E answer \in BOOLEAN :
       \E plan \in Plans(remove_duplicates(all_records), GROUP_SIZE) :
         LET st == insert_in_small_groups(table, conn, all_records,
                                          GROUP_SIZE, plan)
         IN IF all_records # <<>> /\ answer
            THEN /\ table' = st.table
                 /\ conn' = st.conn
                 /\ call' = [op |-> "insert_in_small_groups",
                             records |-> all_records,
                             group_size |-> GROUP_SIZE, plan |-> plan,
                             before |-> table]
                 /\ out' = OutOf(st)
                 /\ inserted_count' = st.ret
                 /\ IF st.raised
                    THEN /\ mainPc' = "failed"
                         /\ UNCHANGED <<cache, evicted>>
                    ELSE /\ mainPc' = "done"
                         /\ \E removed \in Removals(None) :
                              /\ cache' = Without(cache, removed)
                              /\ evicted' = evicted \cup removed
            ELSE /\ plan = NoFailure
                 /\ mainPc' = "done"
                 /\ \E removed \in Removals(None) :
                      /\ cache' = Without(cache, removed)
                      /\ evicted' = evicted \cup removed
                 /\ UNCHANGED <<table, conn, call, out, inserted_count>>
  /\ dbPhase' = "done"
  /\ UNCHANGED <<keep_temp_files, dlPhase, cur, prev, pairIdx, all_records,
                 fetched, origin>>
  /\ UNCHANGED parseVars

\* download_csv's retry loop inside main's call
MainAttempt ==
  /\ mainPc = "fetching"
  /\ \E r \in MainResponses : AttemptWith(r)
  /\ UNCHANGED loadVars
  /\ UNCHANGED mainVars
  /\ UNCHANGED parseVars

NextMain == MainFetch \/ MainAttempt \/ MainConsume \/ MainFinish

SpecMain == Init /\ [][NextMain]_vars

(***************************************************************************)
(* Properties of the loader, checked under SpecLoad.                       *)
(***************************************************************************)
Called == dbPhase = "done" /\ call.op # "none"

Batched == Called /\ call.op = "insert_in_small_groups"

\* the record of the given key that stands last in the list
LastOfKey(records, k) ==
  records[CHOOSE i \in DOMAIN records :
            /\ KeyOf(records[i]) = k
            /\ \A j \in DOMAIN records : KeyOf(records[j]) = k => j <= i]

\* the row holds the values of the record in every column
RowHolds(row, r) == \A col \in Columns : row.rec[col] = r[col]

\* C1: after an upsert that did not fail, every key of its input has exactly
\* one row, and that row holds, in every non-key column, the value of the
\* last record written for the key, whatever row an earlier upsert left
\* there; the row's stamp is that of this run.
C1_UpsertOverwrites ==
  (Called /\ ~out.raised) =>
    \A k \in KeysOf(call.records) :
      /\ Cardinality(RowsOfKey(table, k)) = 1
      /\ \A i \in RowsOfKey(table, k) :
           /\ \A col \in SetCols :
                table[i].rec[col] = LastOfKey(call.records, k)[col]
           /\ table[i].created_at > 0

\* an earlier upsert wrote r1, this upsert wrote r2 of the same key with
\* other values, and the row now holds r2's
C1_Witness ==
  /\ Called /\ ~out.raised
  /\ call.records = <<Rec("A", D1, 1, 2)>>
  /\ \E i \in DOMAIN call.before : RowHolds(call.before[i], Rec("A", D1, 1, 1))
  /\ \E i \in DOMAIN table : RowHolds(table[i], Rec("A", D1, 1, 2))

NoTwoRowsOfAKey(tbl) ==
  \A i, j \in DOMAIN tbl : KeyOf(tbl[i].rec) = KeyOf(tbl[j].rec) => i = j

\* C2: in every reachable state the store, and the connection's view of it,
\* hold at most one row per (loc, gas_day, cycle).
C2_OneRowPerKey == NoTwoRowsOfAKey(table) /\ NoTwoRowsOfAKey(conn)

\* a batched upsert failed in its second batch over a table that already
\* held, from an earlier run, the keys it wrote again
C2_Witness ==
  /\ Batched /\ out.raised /\ call.plan.batch = 2
  /\ Len(call.before) = 3
  /\ KeysOf(call.records) \subseteq {KeyOf(call.before[i].rec) : i \in 1..3}
  /\ Len(table) = 3 /\ table # call.before

\* C3: remove_duplicates returns one record per key of its input and no
\* other, each the last record of its key in the input; the empty list
\* gives the empty list.
C3_DedupLastWins ==
  Called =>
    LET deduplicated == remove_duplicates(call.records)
    IN /\ \A i, j \in DOMAIN deduplicated :
            KeyOf(deduplicated[i]) = KeyOf(deduplicated[j]) => i = j
       /\ KeysOf(deduplicated) = KeysOf(call.records)
       /\ \A i \in DOMAIN deduplicated :
            deduplicated[i] = LastOfKey(call.records, KeyOf(deduplicated[i]))
       /\ (call.records = <<>> => deduplicated = <<>>)

\* the input holds a key twice with different values, around another key
C3_Witness ==
  /\ Called
  /\ call.records = <<Rec("A", D1, 1, 1), Rec("B", D2, 1, 1), Rec("A", D1, 1, 2)>>
  /\ remove_duplicates(call.records) = <<Rec("A", D1, 1, 2), Rec("B", D2, 1, 1)>>

\* C4: an upsert that met no failure returns the number of distinct keys of
\* its input.
C4_CountIsDistinctKeys ==
  (Called /\ ~out.raised) =>
    out.ret = Some(Cardinality(KeysOf(call.records)))

\* a batched upsert of three records over two keys, in two groups
C4_Witness ==
  /\ Batched /\ ~out.raised
  /\ call.group_size = 1
  /\ Len(call.records) = 3
  /\ out.attempted = 2
  /\ out.ret = Some(2)

\* the unique records a batched call committed before batch k
CommittedBefore(k) ==
  LET unique_records == remove_duplicates(call.records)
  IN SubSeq(unique_records, 1,
            Min((k - 1) * call.group_size, Len(unique_records)))

\* the batch (1-based) in which the call sends the i-th unique record
BatchOf(i) == ((i - 1) \div call.group_size) + 1

\* tbl is the table `before` with exactly the records `written` upserted,
\* record i stamped with stamp[i]
IsEffectOf(tbl, before, written, stamp(_)) ==
  /\ \A i \in DOMAIN written :
       /\ Cardinality(RowsOfKey(tbl, KeyOf(written[i]))) = 1
       /\ \A j \in RowsOfKey(tbl, KeyOf(written[i])) :
            RowHolds(tbl[j], written[i]) /\ tbl[j].created_at = stamp(i)
  /\ \A j \in DOMAIN tbl :
       KeyOf(tbl[j].rec) \notin KeysOf(written) =>
         \E i \in DOMAIN before : before[i] = tbl[j]
  /\ \A i \in DOMAIN before :
       KeyOf(before[i].rec) \notin KeysOf(written) =>
         \E j \in DOMAIN tbl : before[i] = tbl[j]

\* C5: when the write of batch k of a batched upsert fails, the store holds
\* the table before the call with batches 1..k-1 upserted and nothing else,
\* the connection shows no row of batch k, no batch after k was attempted,
\* and the handler raised instead of returning.
C5_FailedBatchRolledBack ==
  (Batched /\ call.plan.batch > 0) =>
    /\ IsEffectOf(table, call.before, CommittedBefore(call.plan.batch), BatchOf)
    /\ conn = table
    /\ out.attempted = call.plan.batch
    /\ out.raised /\ out.ret = None

\* batch 2 of 3 failed at its commit, after its row was written in the open
\* transaction: batch 1 is in the store, batch 2 and 3 are not
C5_Witness ==
  /\ Batched /\ call.plan = [batch |-> 2, at |-> "commit"]
  /\ call.group_size = 1
  /\ call.before = <<>>
  /\ call.records = <<Rec("A", D1, 1, 1), Rec("A", D1, 2, 1), Rec("B", D2, 1, 1)>>
  /\ Len(table) = 1 /\ RowHolds(table[1], Rec("A", D1, 1, 1))
  /\ out.raised

\* batch 2 of the 3 batches of a batched upsert failed
Batch2Of3Failed ==
  /\ Batched
  /\ NumGroups(Len(remove_duplicates(call.records)), call.group_size) = 3
  /\ call.plan.batch = 2

\* the number of records in batch 1
Batch1Size == Min(call.group_size, Len(remove_duplicates(call.records)))

\* C6 as stated: when batch 2 of 3 fails, the caller is handed the count of
\* batch 1 and the error.
C6_AsStated ==
  Batch2Of3Failed => (out.raised /\ out.ret = Some(Batch1Size))

\* C6 as amended: when batch 2 of 3 fails, the handler raises and returns no
\* count; the running total it logged stops at the size of batch 1.
C6_RunningTotalLogged ==
  Batch2Of3Failed =>
    /\ out.raised
    /\ out.ret = None
    /\ out.logged = <<Batch1Size>>

C6_Witness ==
  /\ Batch2Of3Failed
  /\ call.records = <<Rec("A", D1, 1, 1), Rec("A", D1, 2, 1), Rec("B", D2, 1, 1)>>
  /\ out.logged = <<1>>
  /\ Len(table) = 1

\* C17: no statement of an upsert carries two records of one key, whatever
\* the input holds; so an upsert the storage does not fail raises nothing,
\* and leaves for every key of its input one row holding the record that
\* stands last for that key in the input.
C17_NoCollisionError ==
  Called =>
    /\ \A n \in DOMAIN out.statements :
         \A i, j \in DOMAIN out.statements[n] :
           KeyOf(out.statements[n][i]) = KeyOf(out.statements[n][j]) => i = j
    /\ call.plan = NoFailure =>
         /\ ~out.raised /\ out.ret # None
         /\ \A k \in KeysOf(call.records) :
              /\ Cardinality(RowsOfKey(table, k)) = 1
              /\ \A i \in RowsOfKey(table, k) :
                   RowHolds(table[i], LastOfKey(call.records, k))

\* the input holds one key three times, the values changing back and forth,
\* and was written by a single statement
C17_Witness ==
  /\ Called /\ call.plan = NoFailure
  /\ call.records = <<Rec("A", D1, 1, 2), Rec("A", D1, 1, 1), Rec("A", D1, 1, 2)>>
  /\ out.statements = <<(<<Rec("A", D1, 1, 2)>>)>>
  /\ ~out.raised
  /\ Len(table) = 1 /\ RowHolds(table[1], Rec("A", D1, 1, 2))

\* the records the rows of a table hold, stamps and ids left aside
ContentOf(tbl) == {tbl[i].rec : i \in DOMAIN tbl}

\* the call of this run met no failure of the storage
Unfailed == Called /\ call.plan = NoFailure

\* what insert_records gives for the input and the starting store of the
\* call of this run
AsOneTransaction ==
  insert_records(call.before, call.before, call.records, NoFailure)

\* what insert_in_small_groups gives for them with groups of g
InGroupsOf(g) ==
  insert_in_small_groups(call.before, call.before, call.records, g, NoFailure)

\* C21: for the input and the starting store of any upsert that met no
\* failure, insert_records and insert_in_small_groups with every group size
\* leave tables of as many rows holding the same records, key and non-key
\* columns alike, and return the same count; the upsert that ran is one of
\* them.
C21_SingleEqualsBatched ==
  Unfailed =>
    LET single == AsOneTransaction
    IN /\ ~single.raised
       /\ call.op = "insert_records" =>
            table = single.table /\ out.ret = single.ret
       /\ \A g \in 1..MaxGroup :
            LET batched == InGroupsOf(g)
            IN /\ ContentOf(batched.table) = ContentOf(single.table)
               /\ Len(batched.table) = Len(single.table)
               /\ batched.ret = single.ret
               /\ ~batched.raised
               /\ (call.op = "insert_in_small_groups" /\ call.group_size = g)
                    => (table = batched.table /\ out.ret = batched.ret)

\* three keys written one per transaction over a store that held one of
\* them with other values: the same records as one transaction leaves, the
\* stamps apart
C21_Witness ==
  /\ Unfailed /\ call.op = "insert_in_small_groups" /\ call.group_size = 1
  /\ call.records = <<Rec("A", D1, 1, 2), Rec("A", D1, 2, 1), Rec("B", D2, 1, 1)>>
  /\ \E i \in DOMAIN call.before : RowHolds(call.before[i], Rec("A", D1, 1, 1))
  /\ out.attempted = 3 /\ out.ret = Some(3)
  /\ ContentOf(table) = ContentOf(AsOneTransaction.table)
  /\ table # AsOneTransaction.table

\* C23: deduplicating a deduplicated list gives the same list; the upsert
\* of this run, given the deduplicated list instead of its input, sends the
\* same statements, leaves the same table and gives back the same count or
\* exception.
C23_DedupIdempotent ==
  Called =>
    LET x == call.records
        d == remove_duplicates(x)
        again == IF call.op = "insert_records"
                 THEN insert_records(call.before, call.before, d, call.plan)
                 ELSE insert_in_small_groups(call.before, call.before, d,
                                             call.group_size, call.plan)
    IN /\ remove_duplicates(d) = d
       /\ OutOf(again) = out
       /\ again.table = table
       /\ again.conn = conn

\* an input of three records over two keys, whose deduplicated list is
\* shorter and was written in one group
C23_Witness ==
  /\ Unfailed /\ call.op = "insert_in_small_groups" /\ call.group_size = 2
  /\ call.records = <<Rec("A", D1, 1, 1), Rec("B", D2, 1, 1), Rec("A", D1, 1, 2)>>
  /\ Len(remove_duplicates(call.records)) = 2
  /\ out.statements = <<remove_duplicates(call.records)>>
  /\ out.ret = Some(2)

\* C24: an upsert of the empty list returns 0 and does not raise, opens no
\* transaction, sends no statement, and leaves the store and the
\* connection's view as they were.
C24_EmptyInput ==
  (Called /\ call.records = <<>>) =>
    /\ out.ret = Some(0) /\ ~out.raised
    /\ out.attempted = 0 /\ out.statements = <<>> /\ out.logged = <<>>
    /\ table = call.before /\ conn = call.before

\* insert_records was handed the empty list over a store of two rows
C24_Witness ==
  /\ Called /\ call.op = "insert_records" /\ call.records = <<>>
  /\ Len(call.before) = 2 /\ table = call.before
  /\ out.ret = Some(0)

(***************************************************************************)
(* Properties of the downloader, checked under SpecFetch.                  *)
(***************************************************************************)
\* a download_csv call was made and is over
Finished == dlPhase = "idle" /\ (cur.returned \/ cur.raised)

\* the request met a transport failure or a status other than 200
Failed(r) == r.exc # "none" \/ r.status # 200

\* the cache file of a pair: named from the ISO date and the cycle
EntryOf(gas_day, cycle) == <<<<gas_day[3], gas_day[1], gas_day[2]>>, cycle>>

\* C7: a call that found no cache entry and whose every request failed
\* (transport failure or non-200 status) never raises; once over it has
\* made exactly MAX_RETRIES requests with one sleep of RETRY_DELAY between
\* each two, and has returned (None, None).
C7_RetryExhaustion ==
  (cur.answers # <<>> /\ \A i \in DOMAIN cur.answers : Failed(cur.answers[i])) =>
    /\ ~cur.raised
    /\ dlPhase = "idle" =>
         /\ cur.returned
         /\ cur.content = None /\ cur.key = None
         /\ Len(cur.answers) = MAX_RETRIES
         /\ Len(cur.events) = 2 * MAX_RETRIES - 1
         /\ \A i \in DOMAIN cur.events :
              cur.events[i] = IF i % 2 = 1 THEN Get(REQUEST_TIMEOUT)
                              ELSE Sleep(RETRY_DELAY)

\* a status, a timeout and a connection error used up the attempts
C7_Witness ==
  /\ Finished
  /\ Len(cur.answers) = MAX_RETRIES
  /\ cur.answers[1].status = 500
  /\ cur.answers[2].exc = "Timeout"
  /\ cur.answers[3].exc = "ConnectionError"
  /\ cur.content = None /\ cur.key = None

\* C8: a call that finds the cache entry of its (gasDay, cycle) makes no
\* request and returns at once the entry's content and the entry's path.
C8_CacheHit ==
  (cur.gas_day # <<>> /\ cur.files[EntryOf(cur.gas_day, cur.cycle)] # None) =>
    /\ cur.returned /\ ~cur.raised
    /\ cur.events = <<>>
    /\ cur.content = cur.files[EntryOf(cur.gas_day, cur.cycle)]
    /\ cur.key = Some(EntryOf(cur.gas_day, cur.cycle))

\* the entry of cycle 2 is returned while cycle 1 of the day holds another
C8_Witness ==
  /\ Finished
  /\ cur.gas_day = <<"11", "05", "2026">> /\ cur.cycle = 2
  /\ cur.files[EntryOf(cur.gas_day, 2)] = Some(Payload2)
  /\ cur.files[EntryOf(cur.gas_day, 1)] = Some(Payload1)
  /\ cur.content = Some(Payload2)

\* two calls for the same pair, one after the other, no cleanup between
TwoCalls ==
  /\ Finished
  /\ prev.valid
  /\ prev.gas_day = cur.gas_day /\ prev.cycle = cur.cycle

Is200(r) == r.exc = "none" /\ r.status = 200

\* the request was answered with status 200 and a CSV content type
Is200Csv(r) ==
  /\ Is200(r)
  /\ r.content_type \in {"text/csv", "application/csv", "text/csv; charset=utf-8"}

\* C11: once a call has returned content that a request of its own fetched
\* (status 200, CSV content type), the cache entry of its (gasDay, cycle)
\* holds exactly the returned text, the text is the response's, and the
\* returned key is the path of that entry.
C11_CachedBeforeReturn ==
  (cur.answers # <<>> /\ Is200Csv(Last(cur.answers))) =>
    /\ cur.returned /\ ~cur.raised
    /\ cur.content = Some(Last(cur.answers).text)
    /\ cache[EntryOf(cur.gas_day, cur.cycle)] = cur.content
    /\ cur.key = Some(EntryOf(cur.gas_day, cur.cycle))

\* the second attempt fetched a report while another pair's entry, holding
\* another report, sat in the cache
C11_Witness ==
  /\ Finished
  /\ Len(cur.answers) = 2
  /\ Last(cur.answers) = Response(200, "application/csv", Payload2)
  /\ cur.gas_day = <<"11", "04", "2026">> /\ cur.cycle = 1
  /\ cache[EntryOf(cur.gas_day, 1)] = Some(Payload2)
  /\ cache[EntryOf(<<"11", "05", "2026">>, 1)] = Some(Payload1)

\* C12: a request answered 200 with a content type that is not CSV is the
\* last of its call, whatever its attempt number: the call has returned
\* (None, None), wrote no cache entry, and took no sleep after that request.
C12_NonCsvEndsCall ==
  \A i \in DOMAIN cur.answers :
    (Is200(cur.answers[i]) /\ ~Is200Csv(cur.answers[i])) =>
      /\ i = Len(cur.answers)
      /\ dlPhase = "idle"
      /\ cur.returned /\ ~cur.raised
      /\ cur.content = None /\ cur.key = None
      /\ Last(cur.events) = Get(REQUEST_TIMEOUT)
      /\ Requests(cur.events) = i
      /\ cache = cur.files

\* after one failed attempt and its sleep, the second request got a 200
\* page that is neither CSV nor the no-data page
C12_Witness ==
  /\ Finished
  /\ Len(cur.answers) = 2
  /\ cur.answers[1] = Response(500, "text/html", ErrorPage)
  /\ cur.answers[2] = Response(200, "application/json", ErrorPage)
  /\ cur.events = <<Get(REQUEST_TIMEOUT), Sleep(RETRY_DELAY), Get(REQUEST_TIMEOUT)>>
  /\ cur.content = None

\* the number of time.sleep calls in a trace of events
Sleeps(events) == Cardinality({i \in DOMAIN events : events[i].ev = "sleep"})

\* the call found no cache entry, its requests but the last failed and the
\* last got a 200 CSV response
SucceededAtLast ==
  /\ cur.answers # <<>>
  /\ Is200Csv(Last(cur.answers))
  /\ \A i \in 1..(Len(cur.answers) - 1) : Failed(cur.answers[i])

\* what holds in every state of a call
BoundedRetry ==
  /\ Requests(cur.events) <= MAX_RETRIES
  /\ SucceededAtLast =>
       /\ cur.files[EntryOf(cur.gas_day, cur.cycle)] = None
       /\ Len(cur.answers) <= MAX_RETRIES
       /\ Requests(cur.events) = Len(cur.answers)
       /\ Sleeps(cur.events) = Len(cur.answers) - 1
       /\ \A i \in DOMAIN cur.events :
            cur.events[i].ev = IF i % 2 = 1 THEN "get" ELSE "sleep"
       /\ dlPhase = "idle" /\ cur.returned /\ ~cur.raised
       /\ cur.content = Some(Last(cur.answers).text)
       /\ cache[EntryOf(cur.gas_day, cur.cycle)] = cur.content

\* C20: a call never makes more than MAX_RETRIES requests; when requests
\* 1..k-1 fail and request k gets a 200 CSV response, the call has made k
\* requests and k-1 sleeps, one between each two requests, has written the
\* cache entry and has returned the response's text; and every call that
\* enters the retry loop leaves it.
C20_SucceedsAtAttemptK ==
  /\ []BoundedRetry
  /\ ((dlPhase = "attempting") ~> (dlPhase = "idle"))

\* a timeout and a 404 came before the report, fetched by the last attempt
\* allowed
C20_Witness ==
  /\ Finished
  /\ Len(cur.answers) = MAX_RETRIES
  /\ cur.answers[1] = Raises("Timeout")
  /\ cur.answers[2] = Response(404, "text/html", NoDataPage)
  /\ cur.answers[3] = Response(200, "text/csv", Payload1)
  /\ Sleeps(cur.events) = 2
  /\ cur.content = Some(Payload1)

\* C22: a call that returned (None, None) left every file of the cache as
\* it found it; a call that returned gave a content and a key that are
\* both None, or a key that is the path of the entry of its (gasDay,
\* cycle), which exists and holds the content.
C22_NoneLeavesCache ==
  (dlPhase = "idle" /\ cur.returned) =>
    /\ (cur.content = None /\ cur.key = None) => cache = cur.files
    /\ \/ cur.content = None /\ cur.key = None
       \/ /\ cur.content # None
          /\ cur.key = Some(EntryOf(cur.gas_day, cur.cycle))
          /\ cache[EntryOf(cur.gas_day, cur.cycle)] = cur.content

\* a call for cycle 2 gave up after its retries while the entry of cycle 1
\* of the same day sat in the cache, and left it there
C22_Witness ==
  /\ Finished
  /\ cur.gas_day = <<"11", "05", "2026">> /\ cur.cycle = 2
  /\ Len(cur.answers) = MAX_RETRIES
  /\ cur.content = None /\ cur.key = None
  /\ cache[EntryOf(cur.gas_day, 1)] = Some(Payload1)
  /\ cache[EntryOf(cur.gas_day, 2)] = None
  /\ cache = cur.files

(***************************************************************************)
(* Properties of the parser, checked under SpecParse.                      *)
(***************************************************************************)
\* the row has a location field and it is not the empty string
HasLoc(row) == row.Loc # NoCell /\ row.Loc # ""

\* the row's cleaning throws: it has a location but no field for a text
\* column
CleaningThrows(row) == HasLoc(row) /\ row.Text = NoCell

\* the row numbers of the rows that are neither without location nor
\* throwing
GoodRows(rows) ==
  {i \in DOMAIN rows : HasLoc(rows[i]) /\ ~CleaningThrows(rows[i])}

\* how many good rows stand at or before row i
Rank(rows, i) == Cardinality({j \in GoodRows(rows) : j <= i})

NumericCols == SetCols \ TextCols

\* the record carries the row's location and text cells, stripped
FromRow(rec, row) ==
  /\ row.Text # NoCell
  /\ rec["loc"] = Strip(row.Loc)
  /\ \A col \in TextCols : rec[col] = Some(Strip(row.Text))

\* C13: parse_csv never raises; it returns exactly one record per row that
\* has a location and whose cleaning does not throw, and logs the number of
\* every other row; so three valid rows and one row without location give
\* three records wherever the bad row stands.
C13_BadRowsIsolated ==
  parsed.called =>
    /\ ~parsed.raised
    /\ Len(parsed.records) = Cardinality(GoodRows(parsed.rows))
    /\ \A i \in GoodRows(parsed.rows) :
         FromRow(parsed.records[Rank(parsed.rows, i)], parsed.rows[i])
    /\ {parsed.skipped[j] : j \in DOMAIN parsed.skipped} =
         DOMAIN parsed.rows \ GoodRows(parsed.rows)
    /\ (/\ Len(parsed.rows) = 4
        /\ Cardinality({i \in 1..4 : ~HasLoc(parsed.rows[i])}) = 1
        /\ Cardinality(GoodRows(parsed.rows)) = 3)
         => Len(parsed.records) = 3

\* three valid rows around a second row whose location is empty
C13_Witness ==
  /\ parsed.called
  /\ parsed.rows = <<Row("A", "x", "1"), Row("", "x", "2"),
                     Row(" B ", " y ", "1,234"), Row("C", "x", "abc")>>
  /\ Len(parsed.records) = 3
  /\ parsed.skipped = <<2>>
  /\ parsed.records[3]["loc"] = "C"

\* C14 as stated: every record parse_csv returns has a loc that is not the
\* empty string.
C14_LocNonEmpty ==
  \A j \in DOMAIN parsed.records : parsed.records[j]["loc"] # ""

\* the cell is empty, missing, blank or not a number
NotANumber(cell) == cell \in {NoCell, "", "  ", "abc"}

\* C15: every row that has a location (and a field for the text columns)
\* gives a record with its location and text cells, whatever its numeric
\* cell; a numeric cell that is empty, missing or not a number gives None
\* in each numeric column.
C15_NumericFailureKeepsRow ==
  parsed.called =>
    \A i \in DOMAIN parsed.rows :
      (HasLoc(parsed.rows[i]) /\ parsed.rows[i].Text # NoCell) =>
        /\ Rank(parsed.rows, i) \in DOMAIN parsed.records
        /\ FromRow(parsed.records[Rank(parsed.rows, i)], parsed.rows[i])
        /\ NotANumber(parsed.rows[i].Num) =>
             \A col \in NumericCols :
               parsed.records[Rank(parsed.rows, i)][col] = None

\* rows with an unparseable, an empty and a missing numeric cell, after a
\* row with a number
C15_Witness ==
  /\ parsed.called
  /\ parsed.rows = <<Row(" B ", " y ", "1,234"), Row("C", "x", "abc"),
                     Row("D", "", ""), Row("F", "x", NoCell)>>
  /\ Len(parsed.records) = 4
  /\ parsed.records[1]["oper_capacity"] = Some(1234)
  /\ parsed.records[2]["oper_capacity"] = None
  /\ parsed.records[2]["loc_name"] = Some("x")
  /\ parsed.records[4]["total_scheduled"] = None

\* recs[j..] are records of rows[i..] taken in order, each row used once
RECURSIVE InOrderFrom(_, _, _, _)
InOrderFrom(recs, rows, j, i) ==
  IF j > Len(recs) THEN TRUE
  ELSE IF i > Len(rows) THEN FALSE
  ELSE IF FromRow(recs[j], rows[i]) /\ HasLoc(rows[i])
       THEN InOrderFrom(recs, rows, j + 1, i + 1)
       ELSE InOrderFrom(recs, rows, j, i + 1)

\* C16: the records returned are records of distinct rows of the payload,
\* in the order of those rows.
C16_OrderPreserved ==
  parsed.called => InOrderFrom(parsed.records, parsed.rows, 1, 1)

\* the same row stands first and last, around a dropped row and another row
C16_Witness ==
  /\ parsed.called
  /\ parsed.rows = <<Row(" B ", " y ", "1,234"), Row("E", NoCell, NoCell),
                     Row("A", "x", "1"), Row(" B ", " y ", "1,234")>>
  /\ Len(parsed.records) = 3
  /\ parsed.records[1]["loc"] = "B"
  /\ parsed.records[2]["loc"] = "A"
  /\ parsed.records[3]["loc"] = "B"

(***************************************************************************)
(* Properties of the orchestrator, checked under SpecMain.                 *)
(***************************************************************************)
\* the cache file the record was parsed from
EntryOfRecord(r) == <<r["gas_day"], r["cycle"]>>

\* the store holds the record as main would have it written
Persisted(r) ==
  \E j \in DOMAIN table :
    RowHolds(table[j], LastOfKey(all_records, KeyOf(r)))

\* C10 as stated: main deletes the cache file of a pair only once the
\* records parsed from it are committed in the store.
C10_EvictAfterPersist ==
  \A i \in DOMAIN all_records :
    EntryOfRecord(all_records[i]) \in evicted => Persisted(all_records[i])

\* the loader was called by main
LoaderCalled == call.op # "none"

\* the records main collected for the n-th pair it visited
RecordsOf(n) == {i \in DOMAIN all_records : origin[i] = n}

\* the gas day MM/DD/YYYY of a request, as a record carries it: YYYY-MM-DD
IsoOf(gas_day) == <<gas_day[3], gas_day[1], gas_day[2]>>

C19_NoDataSkipsPair ==
  /\ Len(fetched) = pairIdx - 1
  /\ mainPc \in {"loop", "fetching"} => pairIdx <= Len(PairList)
  /\ mainPc \in {"summary", "done", "failed"} => Len(fetched) = Len(PairList)
  /\ \A n \in DOMAIN fetched :
       /\ fetched[n].gas_day = format_date_for_url(PairList[n].date)
       /\ fetched[n].cycle = PairList[n].cycle
       /\ IF fetched[n].content = None
          THEN RecordsOf(n) = {}
          ELSE Cardinality(RecordsOf(n)) =
                 Cardinality(GoodRows(fetched[n].content[1].rows))
  /\ LoaderCalled => call.records = all_records /\ all_records # <<>>

\* the first pair got (None, None) after its retries, the second pair's
\* report was stored
C19_Witness ==
  /\ LoaderCalled /\ mainPc = "done"
  /\ fetched[1].content = None
  /\ fetched[2].content = Some(Payload1)
  /\ RecordsOf(2) = {1, 2}
  /\ Len(table) = 2 /\ table[1].rec["cycle"] = 2

====
